---- MODULE Spec2Model ----
(***************************************************************************)
(* Shape-key transfer pipeline of ready_player_me/util.py:                 *)
(* add_gender_shapes / add_body_shapes (the batches) and                    *)
(* transfer_shape_key (one job), stepped statement by statement.            *)
(***************************************************************************)
EXTENDS Integers, Sequences, FiniteSets, TLC

\* ------------------------------------------------------------------ bounds
\* Number of batch calls made on the same target in one run.
MaxBatches == 2
\* Number of host operator calls (bpy.ops / import) that may raise in one run.
MaxFaults == 1

\* ------------------------------------------------------------------- names
\* A datablock name: a base string and Blender's numeric suffix (0 = none).
Nm(b) == [base |-> b, n |-> 0]

NoObj == [base |-> "", n |-> 0]

RECURSIVE FirstFree(_, _, _)
FirstFree(b, m, used) ==
    IF [base |-> b, n |-> m] \in used THEN FirstFree(b, m + 1, used)
    ELSE [base |-> b, n |-> m]

\* Blender keeps names unique per collection: a taken name gets the next
\* free ".NNN" suffix.
UniqueName(name, used) ==
    IF name \in used THEN FirstFree(name.base, name.n + 1, used) ELSE name

\* ------------------------------------------------------------------- enums
Shape == <<"neutral", "male", "female">>

BodyShapes == <<"shapeBody01_average", "shapeBody02_athletic",
                "shapeBody03_heavyset", "shapeBody04_plussize">>

Range(s) == {s[i] : i \in 1..Len(s)}

KeyNames(keys) == {keys[i].name : i \in 1..Len(keys)}

EnumNames(enum) == {Nm(enum[i]) : i \in 1..Len(enum)}

\* ------------------------------------------------------- skip guards (35-52)
ObjHasGenderShapesInverted(keys) ==
    IF keys # <<>> THEN EnumNames(Shape) \ KeyNames(keys) # {} ELSE FALSE

ObjHasGenderShapes(keys) ==
    IF keys # <<>> THEN EnumNames(Shape) \ KeyNames(keys) = {} ELSE FALSE

ObjHasBodyShapes(keys) ==
    IF keys # <<>> THEN EnumNames(BodyShapes) \ KeyNames(keys) = {} ELSE FALSE

HasShapeSet(k, keys) ==
    IF k = "gender" THEN ObjHasGenderShapes(keys) ELSE ObjHasBodyShapes(keys)

\* The names a batch runs a job for, in order.
GenderJobs == SubSeq(Shape, 2, Len(Shape))

BodyJobs == BodyShapes

\* merge_verts of the jobs of a batch.
MergeVerts(k) == k = "body"

\* ------------------------------------------------------ source shape library
EmptyLib == [s \in {} |-> 0]

\* Contents of the library file imported by a batch: shape name -> the
\* displacement of that shape (0 = an all-zero field).
GenderLibs ==
    { [s \in {"neutral", "male", "female"} |->
          IF s = "male" THEN 1 ELSE IF s = "female" THEN 2 ELSE 0],
      [s \in {"neutral", "male"} |-> IF s = "male" THEN 1 ELSE 0],
      [s \in {"neutral", "male", "female"} |-> IF s = "male" THEN 1 ELSE 0] }

BodyLibs ==
    { [s \in Range(BodyShapes) |->
          IF s = BodyShapes[1] THEN 1 ELSE IF s = BodyShapes[2] THEN 2
          ELSE IF s = BodyShapes[3] THEN 3 ELSE 4],
      [s \in Range(BodyShapes) \ {BodyShapes[3]} |->
          IF s = BodyShapes[1] THEN 1 ELSE IF s = BodyShapes[2] THEN 2 ELSE 4] }

\* Weights the imported body object arrives with: all neutral, or (library
\* file saved with a shape left on) one shape at 1.
ImportedWeights(lib, on) ==
    [s \in DOMAIN lib |-> IF on /\ s \in {"male", BodyShapes[2]} THEN 1 ELSE 0]

RECURSIVE SumOver(_, _, _)
SumOver(S, w, lib) ==
    IF S = {} THEN 0
    ELSE LET s == CHOOSE x \in S : TRUE
         IN w[s] * lib[s] + SumOver(S \ {s}, w, lib)

\* Displacement of the source surface under weights w.
Eval(w, lib) == SumOver(DOMAIN lib, w, lib)

\* pyblend.shapekeys.clear_shape_keys_weights
ClearShapeKeysWeightsNoop(w) == w

ClearShapeKeysWeights(w) == [s \in DOMAIN w |-> 0]

\* pyblend.shapekeys.set_exclusive_shape_weight
SetExclusiveShapeWeightNoop(w, key) == w

SetExclusiveShapeWeight(w, key) == [s \in DOMAIN w |-> IF s = key THEN 1 ELSE 0]

Exclusive(w, key) ==
    /\ key \in DOMAIN w
    /\ \A s \in DOMAIN w : w[s] = (IF s = key THEN 1 ELSE 0)

AllZero(w) == \A s \in DOMAIN w : w[s] = 0

\* ------------------------------------------------------------ target inputs
Key(b, d) == [name |-> Nm(b), data |-> d]

\* Shape keys the target asset starts with (5 = a displacement sculpted by hand).
InitTargets ==
    { <<>>,
      <<Key("neutral", 0), Key("male", 5)>>,
      <<Key("neutral", 0), Key("male", 5), Key("female", 5)>>,
      <<Key("Basis", 0), Key(BodyShapes[1], 5), Key(BodyShapes[3], 5)>>,
      <<Key("Basis", 0), Key(BodyShapes[1], 5), Key(BodyShapes[2], 5),
        Key(BodyShapes[3], 5), Key(BodyShapes[4], 5)>> }

\* What a batch call hands back: nothing yet, or Python's None (the batches
\* have no return statement with a value and build no report).
Unset == [type |-> "unset", outcomes |-> EmptyLib]

None == [type |-> "NoneType", outcomes |-> EmptyLib]

\* The target and the scene as a job finds them.
Snapshot(keys, verts, scene) == [keys |-> keys, verts |-> verts, scene |-> scene]

NoSnapshot == Snapshot(<<>>, 0, {})

\* group.add(range(n), 1.0, "ADD"): vertex index -> weight.
VertexGroupAllButLast(n) == [i \in 0..(n - 2) |-> 1]

VertexGroupAll(n) == [i \in 0..(n - 1) |-> 1]

NoGroup == [i \in {} |-> 1]

\* The helpers of util.py that take one object.
Helpers == {"remove_doubles", "surface_deform", "laplacian_deform",
            "triangulate", "constraint"}

\* The verts argument of remove_doubles: not given (None) or a list of
\* vertex indices (1-based here), possibly empty.
NoArg == [given |-> FALSE, sel |-> {}]

VertArgs(n) == {NoArg} \cup {[given |-> TRUE, sel |-> S] : S \in SUBSET (1..n)}

\* Welded vertex count of the target asset.
BaseVerts == 3

VARIABLES
    targetType,    \* target_obj.type
    targetKeys,    \* target_obj.data.shape_keys.key_blocks, in order
    targetVerts,   \* len(target_obj.data.vertices)
    targetSplit,   \* how many of them are split duplicates within the weld threshold
    fileObjs,      \* names of the working copies in bpy.data.objects
    sceneObjs,     \* those linked to bpy.context.scene.collection
    bodies,        \* imported library body objects present in the file
    bodyEditable,  \* the current body_obj was made override-editable
    genderLib, bodyLib, savedOn,   \* contents of the two library files
    srcLib,        \* shape keys of the current body_obj: name -> displacement
    weights,       \* their weights (key_block.value)
    kind, batchPc, idx, batches, faults,
    entryKeys,     \* targetKeys when the batch was called
    jobLog,        \* key names printed at line 197, one per job started
    imported,      \* the batch imported a body object
    copies,        \* working copies the batch created
    retval,        \* what the batch call returned
    jobPc, key, mergeVerts,
    shapeObj,      \* name of the job's working copy, NoObj before line 234
    copyKeys, copyVerts, copyMods, copyGroup,
    bindWeights,   \* source weights the surface-deform binding was computed at
    bakedKey,      \* name join_shapes gave the new key, NoObj before line 255
    entryWeights,  \* source weights when the job was called
    jobEntry,      \* target keys / vertex count and scene when the job was called
    \* -- the helpers of util.py called on their own on one object
    uType,         \* obj.type
    uMesh,         \* obj.data.vertices: the position of each vertex
    uPrevMesh,     \* the mesh before the last remove_doubles call
    uArg,          \* the verts argument of the last remove_doubles call
    uLast,         \* the helper called last, "raised" when it raised
    uMods,         \* obj.modifiers: the type of each, in order
    uCons,         \* obj.constraints, in order
    uCallsBy,      \* calls that returned, per helper
    uCalls,
    \* -- vcs/unity_vcs.py: one call of a function decorated with cm_api
    cmPc, cmFn,
    cmPort,        \* connect_ex(("localhost", 9090)) == 0 on entry
    cmInstalled,   \* the cm command exists
    cmBlock,       \* how the managed block is going to end
    cmStarted,     \* `cm api` subprocesses this call started
    cmClosed,      \* closing inputs this call sent
    cmBlockRan, cmErr, cmResult, cmCalls

batchVars == <<kind, batchPc, idx, batches, entryKeys, jobLog, imported, copies, retval>>
jobVars == <<jobPc, key, mergeVerts, shapeObj, copyKeys, copyVerts, copyMods,
             copyGroup, bindWeights, bakedKey, entryWeights, jobEntry>>
targetVars == <<targetType, targetKeys, targetVerts, targetSplit>>
fileVars == <<fileObjs, sceneObjs, bodies, bodyEditable>>
libVars == <<genderLib, bodyLib, savedOn>>
utilVars == <<uType, uMesh, uPrevMesh, uArg, uLast, uMods, uCons, uCallsBy, uCalls>>
cmVars == <<cmPc, cmFn, cmPort, cmInstalled, cmBlock, cmStarted, cmClosed,
            cmBlockRan, cmErr, cmResult, cmCalls>>
auxVars == <<utilVars, cmVars>>
srcVars == <<srcLib, weights>>
vars == <<targetVars, fileVars, libVars, auxVars, srcVars, batchVars, jobVars, faults>>

NoJob ==
    /\ jobPc = "none" /\ key = "" /\ mergeVerts = FALSE /\ shapeObj = NoObj
    /\ copyKeys = <<>> /\ copyVerts = 0 /\ copyMods = <<>> /\ copyGroup = NoGroup
    /\ bindWeights = EmptyLib /\ bakedKey = NoObj /\ entryWeights = EmptyLib
    /\ jobEntry = NoSnapshot

\* No helper called on its own yet, on a mesh without vertices.
UtilIdle ==
    /\ uPrevMesh = <<>> /\ uArg = NoArg /\ uLast = ""
    /\ uMods = <<>> /\ uCons = <<>>
    /\ uCallsBy = [f \in Helpers |-> 0] /\ uCalls = 0

UtilParked == uType = "MESH" /\ uMesh = <<>> /\ UtilIdle

\* No cm_api call made yet.
CmIdle ==
    /\ cmPc = "idle" /\ cmFn = "" /\ cmPort = FALSE /\ cmInstalled = FALSE
    /\ cmBlock = "" /\ cmStarted = 0 /\ cmClosed = 0 /\ cmBlockRan = FALSE
    /\ cmErr = "" /\ cmResult = <<>> /\ cmCalls = 0

\* No batch called yet.
PipelineIdle ==
    /\ fileObjs = {} /\ sceneObjs = {} /\ bodies = 0 /\ bodyEditable = FALSE
    /\ srcLib = EmptyLib /\ weights = EmptyLib
    /\ kind = "" /\ batchPc = "idle" /\ idx = 0 /\ batches = 0 /\ faults = 0
    /\ entryKeys = <<>> /\ jobLog = <<>> /\ imported = FALSE /\ copies = 0
    /\ retval = Unset
    /\ NoJob

\* The pipeline left alone, on one fixed asset.
PipelineParked ==
    /\ targetType = "MESH" /\ targetKeys = <<>>
    /\ targetSplit = 0 /\ targetVerts = BaseVerts
    /\ genderLib = CHOOSE l \in GenderLibs : DOMAIN l = Range(Shape) /\ l["female"] = 2
    /\ bodyLib = CHOOSE l \in BodyLibs : DOMAIN l = Range(BodyShapes)
    /\ savedOn = FALSE
    /\ PipelineIdle

Init ==
    /\ UtilParked /\ CmIdle
    /\ targetType \in {"MESH", "CURVE"}
    /\ targetKeys \in InitTargets
    /\ targetSplit \in {0, 1}
    /\ targetVerts = BaseVerts + targetSplit
    /\ fileObjs = {} /\ sceneObjs = {} /\ bodies = 0 /\ bodyEditable = FALSE
    /\ genderLib \in GenderLibs
    /\ bodyLib \in BodyLibs
    /\ savedOn \in BOOLEAN
    /\ srcLib = EmptyLib /\ weights = EmptyLib
    /\ kind = "" /\ batchPc = "idle" /\ idx = 0 /\ batches = 0 /\ faults = 0
    /\ entryKeys = <<>> /\ jobLog = <<>> /\ imported = FALSE /\ copies = 0
    /\ retval = Unset
    /\ NoJob

\* ---------------------------------------------------------------- helpers
\* A loop over only the names the target lacked on entry (a per-shape skip).
JobNamesMissingOnly(k) ==
    LET Missing(s) == Nm(s) \notin KeyNames(entryKeys)
    IN SelectSeq(IF k = "gender" THEN GenderJobs ELSE BodyJobs, Missing)

\* The names the for loop of a batch iterates over.
JobNames(k) == IF k = "gender" THEN GenderJobs ELSE BodyJobs

ResetJob ==
    /\ jobPc' = "none" /\ key' = "" /\ mergeVerts' = FALSE /\ shapeObj' = NoObj
    /\ copyKeys' = <<>> /\ copyVerts' = 0 /\ copyMods' = <<>> /\ copyGroup' = NoGroup
    /\ bindWeights' = EmptyLib /\ bakedKey' = NoObj /\ entryWeights' = EmptyLib
    /\ jobEntry' = NoSnapshot

\* An exception leaves transfer_shape_key and, uncaught, the batch (no
\* try/except/finally anywhere on the way).
Raise ==
    /\ jobPc' = (IF jobPc \in {"none", "returned"} THEN jobPc ELSE "raised")
    /\ batchPc' = "raised"

\* A host operator call (bpy.ops.*, import) raising RuntimeError.
OperatorFails ==
    /\ faults < MaxFaults
    /\ faults' = faults + 1
    /\ Raise

\* A create-or-reuse: no second modifier of a type.
ModifiersNewOrReuse(mods, type) ==
    IF \E i \in 1..Len(mods) : mods[i] = type THEN mods ELSE Append(mods, type)

\* obj.modifiers.new(name=..., type=...): always one more modifier.
ModifiersNew(mods, type) == Append(mods, type)

\* pyblend.shapekeys.add_shape_key: "make sure we have" the key.
AddShapeKey(keys, b) ==
    IF Nm(b) \in KeyNames(keys) THEN keys ELSE Append(keys, Key(b, 0))

\* ------------------------------------------------- the batches (260-308)
\* add_gender_shapes(target_obj) / add_body_shapes(target_obj, path) is called.
CallBatch(k) ==
    /\ batchPc \in {"idle", "returned", "raised"}
    /\ batches < MaxBatches
    /\ kind' = k /\ batchPc' = "guard" /\ idx' = 0 /\ batches' = batches + 1
    /\ entryKeys' = targetKeys /\ jobLog' = <<>> /\ imported' = FALSE
    /\ copies' = 0 /\ retval' = Unset
    /\ ResetJob
    /\ UNCHANGED <<targetVars, fileVars, libVars, auxVars, srcVars, faults>>

\* "Skip if we already have the shape keys."
SkipGuard ==
    /\ batchPc = "guard"
    /\ IF HasShapeSet(kind, targetKeys)
       THEN batchPc' = "returned" /\ retval' = None
       ELSE batchPc' = "import" /\ retval' = retval
    /\ UNCHANGED <<targetVars, fileVars, libVars, auxVars, srcVars, jobVars, faults,
                   kind, idx, batches, entryKeys, jobLog, imported, copies>>

\* body_obj = pyblend.object.import_objects(...)[0]
ImportBody ==
    /\ batchPc = "import"
    /\ \/ /\ bodies' = bodies + 1
          /\ bodyEditable' = FALSE
          /\ imported' = TRUE
          /\ srcLib' = (IF kind = "gender" THEN genderLib ELSE bodyLib)
          /\ weights' = ImportedWeights(srcLib', savedOn)
          /\ batchPc' = (IF kind = "gender" THEN "editable" ELSE "loop")
          /\ idx' = 1
          /\ UNCHANGED <<faults, jobVars>>
       \/ /\ OperatorFails
          /\ UNCHANGED <<bodies, bodyEditable, imported, srcLib, weights, idx,
                         key, mergeVerts, shapeObj, copyKeys, copyVerts, copyMods,
                         copyGroup, bindWeights, bakedKey, entryWeights, jobEntry>>
    /\ UNCHANGED <<targetVars, fileObjs, sceneObjs, libVars, auxVars, kind, batches,
                   entryKeys, jobLog, copies, retval>>

\* add_gender_shapes: make_override_editable(body_obj, body_obj.data)
MakeBodyEditable ==
    /\ batchPc = "editable"
    /\ bodyEditable' = TRUE
    /\ batchPc' = "neutral"
    /\ UNCHANGED <<targetVars, fileObjs, sceneObjs, bodies, libVars, auxVars, srcVars,
                   jobVars, faults, kind, idx, batches, entryKeys, jobLog,
                   imported, copies, retval>>

\* add_gender_shapes: add_shape_key(target_obj, key_name=Shape.NEUTRAL)
AddNeutral ==
    /\ batchPc = "neutral"
    /\ targetKeys' = AddShapeKey(targetKeys, Shape[1])
    /\ batchPc' = "loop"
    /\ UNCHANGED <<targetType, targetVerts, targetSplit, fileVars, libVars, auxVars,
                   srcVars, jobVars, faults, kind, idx, batches, entryKeys,
                   jobLog, imported, copies, retval>>

\* The for loop calls transfer_shape_key(body_obj, target_obj, shape_name, ...).
StartJob ==
    /\ batchPc = "loop"
    /\ jobPc \in {"none", "returned"}
    /\ idx <= Len(JobNames(kind))
    /\ key' = JobNames(kind)[idx]
    /\ mergeVerts' = MergeVerts(kind)
    /\ jobLog' = Append(jobLog, key')
    /\ entryWeights' = weights
    /\ jobEntry' = Snapshot(targetKeys, targetVerts, sceneObjs)
    /\ jobPc' = "editable"
    /\ shapeObj' = NoObj /\ copyKeys' = <<>> /\ copyVerts' = 0
    /\ copyMods' = <<>> /\ copyGroup' = NoGroup /\ bindWeights' = EmptyLib
    /\ bakedKey' = NoObj
    /\ UNCHANGED <<targetVars, fileVars, libVars, auxVars, srcVars, faults, kind,
                   batchPc, idx, batches, entryKeys, imported, copies, retval>>

\* The for loop is exhausted.
EndLoop ==
    /\ batchPc = "loop"
    /\ jobPc \in {"none", "returned"}
    /\ idx > Len(JobNames(kind))
    /\ batchPc' = "cleanup"
    /\ UNCHANGED <<targetVars, fileVars, libVars, auxVars, srcVars, jobVars, faults,
                   kind, idx, batches, entryKeys, jobLog, imported, copies, retval>>

\* pyblend.object.remove_object_from_file(body_obj), then the implicit return.
RemoveBody ==
    /\ batchPc = "cleanup"
    /\ bodies' = bodies - 1
    /\ bodyEditable' = FALSE
    /\ srcLib' = EmptyLib /\ weights' = EmptyLib
    /\ batchPc' = "returned"
    /\ retval' = None
    /\ UNCHANGED <<targetVars, fileObjs, sceneObjs, libVars, auxVars, jobVars, faults,
                   kind, idx, batches, entryKeys, jobLog, imported, copies>>

\* ---------------------------------------- transfer_shape_key (186-257)
\* What no step of a job touches.
JobFrame == UNCHANGED <<libVars, auxVars, kind, batches, entryKeys, jobLog, imported,
                        retval, key, mergeVerts, entryWeights, jobEntry, bodies, srcLib,
                        targetType>>

\* Lines 200-201: make_override_editable(src), make_override_editable(src.data).
MakeSrcEditable ==
    /\ jobPc = "editable"
    /\ bodyEditable' = TRUE
    /\ jobPc' = "typecheck"
    /\ JobFrame
    /\ UNCHANGED <<targetKeys, targetVerts, targetSplit, fileObjs, sceneObjs,
                   weights, batchPc, idx, copies, faults, shapeObj, copyKeys,
                   copyVerts, copyMods, copyGroup, bindWeights, bakedKey>>

\* The job without the early check: the type is looked at only where the
\* helpers look at it (lines 58 and 152).
TypeCheckLate ==
    /\ jobPc = "typecheck"
    /\ jobPc' = "clear"
    /\ JobFrame
    /\ UNCHANGED <<targetKeys, targetVerts, targetSplit, fileObjs, sceneObjs,
                   bodyEditable, weights, batchPc, idx, copies, faults, shapeObj,
                   copyKeys, copyVerts, copyMods, copyGroup, bindWeights, bakedKey>>

\* Lines 203-204: both objects must be meshes (src was imported as a MESH).
TypeCheck ==
    /\ jobPc = "typecheck"
    /\ IF targetType # "MESH"
       THEN Raise
       ELSE jobPc' = "clear" /\ batchPc' = batchPc
    /\ JobFrame
    /\ UNCHANGED <<targetKeys, targetVerts, targetSplit, fileObjs, sceneObjs,
                   bodyEditable, weights, idx, copies, faults, shapeObj,
                   copyKeys, copyVerts, copyMods, copyGroup, bindWeights, bakedKey>>

\* Line 205: pyblend.shapekeys.clear_shape_keys_weights(src).
ClearWeights ==
    /\ jobPc = "clear"
    /\ weights' = ClearShapeKeysWeights(weights)
    /\ jobPc' = (IF mergeVerts THEN "weld" ELSE "copy")
    /\ JobFrame
    /\ UNCHANGED <<targetKeys, targetVerts, targetSplit, fileObjs, sceneObjs,
                   bodyEditable, batchPc, idx, copies, faults, shapeObj,
                   copyKeys, copyVerts, copyMods, copyGroup, bindWeights, bakedKey>>

\* remove_doubles with nothing merged.
WeldedCountUnmerged(verts, split) == verts

\* Vertices left by bpy.ops.mesh.remove_doubles over all (selected) vertices:
\* every split duplicate is merged into the vertex it doubles.
WeldedCount(verts, split) == verts - split

\* Lines 209-230: bpy.ops.mesh.remove_doubles on the target, in edit mode.
Weld ==
    /\ jobPc = "weld"
    /\ \/ /\ targetVerts' = WeldedCount(targetVerts, targetSplit)
          /\ targetSplit' = 0
          /\ jobPc' = "copy"
          /\ UNCHANGED <<batchPc, faults>>
       \/ /\ OperatorFails
          /\ UNCHANGED <<targetVerts, targetSplit>>
    /\ JobFrame
    /\ UNCHANGED <<targetKeys, fileObjs, sceneObjs, bodyEditable, weights, idx,
                   copies, shapeObj, copyKeys, copyVerts, copyMods, copyGroup,
                   bindWeights, bakedKey>>

\* Lines 234-236: shape_obj = safe_copy_object(target); shape_obj.name = key_name.
CopyTarget ==
    /\ jobPc = "copy"
    /\ shapeObj' = UniqueName(Nm(key), fileObjs)
    /\ fileObjs' = fileObjs \cup {shapeObj'}
    /\ copyKeys' = targetKeys
    /\ copyVerts' = targetVerts
    /\ copies' = copies + 1
    /\ jobPc' = "link"
    /\ JobFrame
    /\ UNCHANGED <<targetKeys, targetVerts, targetSplit, sceneObjs, bodyEditable,
                   weights, batchPc, idx, faults, copyMods, copyGroup,
                   bindWeights, bakedKey>>

\* Line 239: bpy.context.scene.collection.objects.link(shape_obj).
LinkCopy ==
    /\ jobPc = "link"
    /\ sceneObjs' = sceneObjs \cup {shapeObj}
    /\ jobPc' = "keyclear"
    /\ JobFrame
    /\ UNCHANGED <<targetKeys, targetVerts, targetSplit, fileObjs, bodyEditable,
                   weights, batchPc, idx, copies, faults, shapeObj, copyKeys,
                   copyVerts, copyMods, copyGroup, bindWeights, bakedKey>>

\* Line 242: shape_obj.shape_key_clear().
ShapeKeyClear ==
    /\ jobPc = "keyclear"
    /\ copyKeys' = <<>>
    /\ jobPc' = "sdeform"
    /\ JobFrame
    /\ UNCHANGED <<targetKeys, targetVerts, targetSplit, fileObjs, sceneObjs,
                   bodyEditable, weights, batchPc, idx, copies, faults, shapeObj,
                   copyVerts, copyMods, copyGroup, bindWeights, bakedKey>>

\* Line 244 (55-67): a new surface-deform modifier is added and bound to src
\* as src is deformed right now.
AddModifierSurfaceDeform ==
    /\ jobPc = "sdeform"
    /\ IF targetType # "MESH"
       THEN /\ Raise
            /\ UNCHANGED <<copyMods, bindWeights, faults>>
       ELSE /\ copyMods' = ModifiersNew(copyMods, "SURFACE_DEFORM")
            /\ \/ /\ bindWeights' = weights
                  /\ jobPc' = "vgroup"
                  /\ UNCHANGED <<batchPc, faults>>
               \/ /\ OperatorFails
                  /\ UNCHANGED bindWeights
    /\ JobFrame
    /\ UNCHANGED <<targetKeys, targetVerts, targetSplit, fileObjs, sceneObjs,
                   bodyEditable, weights, idx, copies, shapeObj, copyKeys,
                   copyVerts, copyGroup, bakedKey>>

\* Line 246 (149-158): group "temp_all_verts" over range(len(vertices)).
AddVertexGroupAll ==
    /\ jobPc = "vgroup"
    /\ IF targetType # "MESH"
       THEN Raise /\ copyGroup' = copyGroup
       ELSE /\ copyGroup' = VertexGroupAll(copyVerts)
            /\ jobPc' = "laplacian"
            /\ batchPc' = batchPc
    /\ JobFrame
    /\ UNCHANGED <<targetKeys, targetVerts, targetSplit, fileObjs, sceneObjs,
                   bodyEditable, weights, idx, copies, faults, shapeObj,
                   copyKeys, copyVerts, copyMods, bindWeights, bakedKey>>

\* Line 247 (70-79): a new laplacian-deform modifier is added and bound.
AddModifierLaplacianDeform ==
    /\ jobPc = "laplacian"
    /\ copyMods' = ModifiersNew(copyMods, "LAPLACIANDEFORM")
    /\ \/ /\ jobPc' = "exclusive"
          /\ UNCHANGED <<batchPc, faults>>
       \/ OperatorFails
    /\ JobFrame
    /\ UNCHANGED <<targetKeys, targetVerts, targetSplit, fileObjs, sceneObjs,
                   bodyEditable, weights, idx, copies, shapeObj, copyKeys,
                   copyVerts, copyGroup, bindWeights, bakedKey>>

\* Line 249: set_exclusive_shape_weight(src.data, key=key_name); a key the
\* source does not have is a KeyError.
SetExclusive ==
    /\ jobPc = "exclusive"
    /\ IF key \in DOMAIN weights
       THEN /\ weights' = SetExclusiveShapeWeight(weights, key)
            /\ jobPc' = "join"
            /\ batchPc' = batchPc
       ELSE /\ Raise
            /\ weights' = weights
    /\ JobFrame
    /\ UNCHANGED <<targetKeys, targetVerts, targetSplit, fileObjs, sceneObjs,
                   bodyEditable, idx, copies, faults, shapeObj, copyKeys,
                   copyVerts, copyMods, copyGroup, bindWeights, bakedKey>>

\* What the working copy's modifiers evaluate to: it rides on the source
\* surface, displaced by how far the source moved since the binding.
Deformed == Eval(weights, srcLib) - Eval(bindWeights, srcLib)

\* A join that replaces the data of a key with the joined object's name.
JoinShapesOverwrite(keys, obj, data) ==
    IF obj \in KeyNames(keys)
    THEN [i \in 1..Len(keys) |->
             IF keys[i].name = obj THEN [name |-> obj, data |-> data] ELSE keys[i]]
    ELSE Append(keys, [name |-> obj, data |-> data])

\* join_shapes: a mesh without shape keys first gets its "Basis" key; the new
\* key is named after the joined object, made unique among the key names.
JoinShapes(keys, obj, data) ==
    LET base == IF keys = <<>> THEN <<Key("Basis", 0)>> ELSE keys
    IN Append(base, [name |-> UniqueName(obj, KeyNames(base)), data |-> data])

\* Where control goes after line 255, by whether join_shapes raised.
AfterJoinAlwaysCleanup(ok) == "remove"

AfterJoin(ok) == IF ok THEN "remove" ELSE "raised"

\* Lines 253-255: bpy.ops.object.join_shapes() under the override.
Join ==
    /\ jobPc = "join"
    /\ \/ /\ targetKeys' = JoinShapes(targetKeys, shapeObj, Deformed)
          /\ bakedKey' = targetKeys'[Len(targetKeys')].name
          /\ jobPc' = AfterJoin(TRUE)
          /\ UNCHANGED <<batchPc, faults>>
       \/ /\ faults < MaxFaults
          /\ faults' = faults + 1
          /\ jobPc' = AfterJoin(FALSE)
          /\ batchPc' = (IF jobPc' = "raised" THEN "raised" ELSE batchPc)
          /\ UNCHANGED <<targetKeys, bakedKey>>
    /\ JobFrame
    /\ UNCHANGED <<targetVerts, targetSplit, fileObjs, sceneObjs, bodyEditable,
                   weights, idx, copies, shapeObj, copyKeys, copyVerts, copyMods,
                   copyGroup, bindWeights>>

\* Line 257: pyblend.object.remove_object_from_file(shape_obj), then return.
RemoveCopy ==
    /\ jobPc = "remove"
    /\ fileObjs' = fileObjs \ {shapeObj}
    /\ sceneObjs' = sceneObjs \ {shapeObj}
    /\ jobPc' = "returned"
    /\ idx' = idx + 1
    /\ JobFrame
    /\ UNCHANGED <<targetKeys, targetVerts, targetSplit, bodyEditable, weights,
                   batchPc, copies, faults, shapeObj, copyKeys, copyVerts,
                   copyMods, copyGroup, bindWeights, bakedKey>>

Next ==
    \/ \E k \in {"gender", "body"} : CallBatch(k)
    \/ SkipGuard
    \/ ImportBody
    \/ MakeBodyEditable
    \/ AddNeutral
    \/ StartJob
    \/ EndLoop
    \/ RemoveBody
    \/ MakeSrcEditable
    \/ TypeCheck
    \/ ClearWeights
    \/ Weld
    \/ CopyTarget
    \/ LinkCopy
    \/ ShapeKeyClear
    \/ AddModifierSurfaceDeform
    \/ AddVertexGroupAll
    \/ AddModifierLaplacianDeform
    \/ SetExclusive
    \/ Join
    \/ RemoveCopy

Spec == Init /\ [][Next]_vars

\* ------------------------------------------------------------------ claims
\* The expected shape set of a batch and the names it requests, written out.
ExpectedSet(k) == IF k = "gender" THEN {"neutral", "male", "female"} ELSE Range(BodyShapes)

Requested(k) == IF k = "gender" THEN <<"male", "female">> ELSE BodyShapes

HasEveryName(k, keys) == \A s \in ExpectedSet(k) : Nm(s) \in KeyNames(keys)

HasSomeName(k, keys) == \E s \in Range(Requested(k)) : Nm(s) \in KeyNames(keys)

Ended == batchPc \in {"returned", "raised"}

JobEnded == jobPc \in {"returned", "raised"}

KeysNamed(b) == {i \in 1..Len(targetKeys) : targetKeys[i].name.base = b}

\* C1: a batch called on a target that already has every name of its
\* expected set runs no job, imports no library object, creates no working
\* copy and leaves the target's shape keys (names and data) as they were.
C1_Idempotence ==
    (batchPc = "returned" /\ HasEveryName(kind, entryKeys)) =>
        /\ jobLog = <<>>
        /\ ~imported
        /\ copies = 0
        /\ targetKeys = entryKeys

\* C1 witness: a second call, after a first call applied the set, has returned.
C1_Witness ==
    /\ batchPc = "returned" /\ batches = 2
    /\ HasEveryName(kind, entryKeys)
    /\ entryKeys \notin InitTargets
    /\ targetKeys = entryKeys /\ jobLog = <<>>

\* C2 (the claim as stated): with a mesh target and no host operator failing,
\* a batch that imported its library ends by returning, having run the job
\* of every requested name, with every name the library has on the target.
C2_PartialFailureIsolation ==
    (Ended /\ imported /\ targetType = "MESH" /\ faults = 0) =>
        /\ batchPc = "returned"
        /\ jobLog = Requested(kind)
        /\ \A s \in Range(Requested(kind)) \cap
                    DOMAIN (IF kind = "gender" THEN genderLib ELSE bodyLib) :
               Nm(s) \in KeyNames(targetKeys)

\* C3 (the claim as stated): once a job has returned or raised, its working
\* copy is not linked to the scene.
C3_JobCleanup == JobEnded => shapeObj \notin sceneObjs

\* C4 (the claim as stated): after a job for name N has returned, the target
\* has exactly one key whose name is N or a suffixed copy of N, it is named
\* N, and it holds the displacement just baked.
C4_BakeOverwrites ==
    (jobPc = "returned" /\ batchPc = "loop") =>
        /\ Cardinality(KeysNamed(key)) = 1
        /\ \A i \in KeysNamed(key) :
              targetKeys[i].name = Nm(key) /\ targetKeys[i].data = Deformed

\* C5 (the claim as stated): when a job has ended, every source shape key
\* has the weight it had when the job started.
C5_WeightsRestored ==
    (JobEnded /\ batchPc \in {"loop", "raised"}) => weights = entryWeights

\* C6: when the working copy is about to be, or has just been, joined into
\* the target, the source has the requested shape at 1 and all others at 0.
C6_ExclusiveAtBake == jobPc \in {"join", "remove"} => Exclusive(weights, key)

\* C6 witness: a later job of a batch has just joined its copy.
C6_Witness ==
    /\ jobPc = "remove" /\ idx >= 2 /\ bakedKey # NoObj
    /\ Exclusive(weights, key)
    /\ ~AllZero(entryWeights)

\* C7: the surface-deform binding is computed with every source weight at 0,
\* the source stays neutral until set_exclusive_shape_weight runs, and by
\* then both deform modifiers are on the working copy.
C7_BindBeforeActivate ==
    /\ jobPc \in {"vgroup", "laplacian", "exclusive", "join", "remove"}
          => (DOMAIN bindWeights = DOMAIN weights /\ AllZero(bindWeights))
    /\ jobPc \in {"weld", "copy", "link", "keyclear", "sdeform", "vgroup",
                  "laplacian", "exclusive"} => AllZero(weights)
    /\ jobPc \in {"join", "remove"}
          => copyMods = <<"SURFACE_DEFORM", "LAPLACIANDEFORM">>

\* C7 witness: a later job, entered with a weight left at 1 by the job
\* before it, has bound both modifiers at neutral and is about to activate.
C7_Witness ==
    /\ jobPc = "exclusive" /\ idx >= 2
    /\ ~AllZero(entryWeights)
    /\ AllZero(bindWeights) /\ AllZero(weights)
    /\ copyMods = <<"SURFACE_DEFORM", "LAPLACIANDEFORM">>

\* C8: whenever the job's working copy has been removed from the file, the
\* join has installed its key on the target (holding the baked displacement
\* for as long as the source is there to compare with).
C8_DestroyAfterBake ==
    (shapeObj # NoObj /\ shapeObj \notin fileObjs) =>
        /\ bakedKey # NoObj
        /\ \E i \in 1..Len(targetKeys) :
              /\ targetKeys[i].name = bakedKey
              /\ batchPc = "loop" => targetKeys[i].data = Deformed

\* C8 witness: a job returned, its copy gone and its key on the target.
C8_Witness ==
    /\ jobPc = "returned" /\ shapeObj # NoObj /\ shapeObj \notin fileObjs
    /\ bakedKey \in KeyNames(targetKeys)

\* C9: the only skip is the batch-level one. A batch that returns on a
\* target lacking part of the expected set has started a job for every
\* requested name, in order, also for names the target had; and no batch,
\* however it ends, passes over a requested name to start a later one.
C9_BatchLevelSkip ==
    /\ (batchPc = "returned" /\ ~HasEveryName(kind, entryKeys))
          => jobLog = Requested(kind)
    /\ (batchPc = "returned" /\ jobLog = <<>>) => HasEveryName(kind, entryKeys)
    /\ kind # "" => jobLog = SubSeq(Requested(kind), 1, Len(jobLog))

\* C9 witness: a batch on a target that had some requested names, not the
\* full set, returned after running every job.
C9_Witness ==
    /\ batchPc = "returned"
    /\ HasSomeName(kind, entryKeys) /\ ~HasEveryName(kind, entryKeys)
    /\ jobLog = Requested(kind)

\* C10 (the claim as stated): when a batch ends the caller holds a report
\* with exactly one outcome for each requested shape name.
C10_ReportComplete ==
    Ended =>
        /\ retval.type = "TransferReport"
        /\ DOMAIN retval.outcomes = Range(Requested(kind))
        /\ \A s \in DOMAIN retval.outcomes :
              retval.outcomes[s] \in {"applied", "skipped_already_present", "failed"}

\* C11 (the claim as stated): after a job run with merge_verts the real
\* target has the vertex count it had when the job was called.
C11_TargetNotWelded == (JobEnded /\ mergeVerts) => targetVerts = jobEntry.verts

\* C11 amended: with merge_verts the weld is applied to the real target, in
\* place, before the working copy is made: from then on the target has no
\* split duplicates left and never more vertices than on entry, and the
\* working copy has the welded target's vertex count; without merge_verts
\* the target's vertex count is the one on entry.
C11_WeldsTargetInPlace ==
    /\ (mergeVerts /\ jobPc \in {"copy", "link", "keyclear", "sdeform", "vgroup",
                                 "laplacian", "exclusive", "join", "remove", "returned"})
          => /\ targetVerts = BaseVerts /\ targetSplit = 0
             /\ targetVerts <= jobEntry.verts
             /\ shapeObj # NoObj => copyVerts = targetVerts
    /\ (jobPc # "none" /\ ~mergeVerts) => targetVerts = jobEntry.verts

\* C11 witness: a merge_verts job returned with fewer target vertices than
\* it was called with.
C11_Witness ==
    /\ jobPc = "returned" /\ mergeVerts
    /\ targetVerts < jobEntry.verts
    /\ copyVerts = targetVerts

\* C13: a job on a non-mesh target never gets past the check at line 203,
\* and when it has raised, the source weights, the target's vertices and
\* shape keys and the scene are as the job found them and no working copy
\* was made.
C13_NonMeshRejected ==
    targetType # "MESH" =>
        /\ jobPc \in {"none", "editable", "typecheck", "raised"}
        /\ jobPc = "raised" =>
              /\ weights = entryWeights
              /\ targetVerts = jobEntry.verts
              /\ targetKeys = jobEntry.keys
              /\ sceneObjs = jobEntry.scene
              /\ shapeObj = NoObj /\ copies = 0

\* C13 witness: the job on a curve target raised, the source still carrying
\* the non-zero weight it was imported with.
C13_Witness ==
    /\ targetType = "CURVE" /\ jobPc = "raised"
    /\ ~AllZero(weights) /\ weights = entryWeights
    /\ shapeObj = NoObj

\* C14 (the claim as stated): when a batch that imported the library body
\* object has ended, no imported body object is left in the file.
C14_BodyRemoved == (Ended /\ imported) => bodies = 0

\* C16: when the shape a job isolates has an all-zero displacement, the
\* working copy is undeformed at the join and the baked key is all-zero.
C16_ZeroSignal ==
    (key \in DOMAIN srcLib /\ srcLib[key] = 0) =>
        /\ jobPc = "join" => Deformed = 0
        /\ (jobPc \in {"remove", "returned"} /\ batchPc = "loop") =>
              \E i \in 1..Len(targetKeys) :
                  targetKeys[i].name = bakedKey /\ targetKeys[i].data = 0

\* C16 witness: a job isolating a zero shape, entered with another shape's
\* weight left at 1, has baked an all-zero key.
C16_Witness ==
    /\ jobPc = "returned" /\ batchPc = "loop"
    /\ key \in DOMAIN srcLib /\ srcLib[key] = 0
    /\ ~AllZero(entryWeights)
    /\ \E i \in 1..Len(targetKeys) :
          targetKeys[i].name = bakedKey /\ targetKeys[i].data = 0

\* C17 (the claim as stated): when a batch has returned, the target has
\* every name of the batch's expected set, so the batch's guard holds.
C17_EstablishesGuard ==
    batchPc = "returned" =>
        (HasEveryName(kind, targetKeys) /\ HasShapeSet(kind, targetKeys))

C19_AnchorsAllVertices ==
    /\ jobPc \in {"laplacian", "exclusive", "join", "remove"} =>
          /\ DOMAIN copyGroup = 0..(copyVerts - 1)
          /\ \A i \in DOMAIN copyGroup : copyGroup[i] = 1
          /\ copyVerts = targetVerts
          /\ mergeVerts => targetSplit = 0
    /\ jobPc \in {"editable", "typecheck", "clear", "weld", "copy", "link",
                  "keyclear", "sdeform", "vgroup"} => DOMAIN copyGroup = {}

\* C19 witness: a merge_verts job whose weld merged a vertex is about to
\* bind the laplacian modifier to a group over the welded vertex count.
C19_Witness ==
    /\ jobPc = "laplacian" /\ mergeVerts
    /\ copyVerts < jobEntry.verts
    /\ DOMAIN copyGroup = 0..(copyVerts - 1)

\* =============================================================\* The helpers of util.py called on their own, on one object.
\* -----------------------------------------------------------------
\* Calls made on the object in one run.
MaxUtilCalls == 2
\* Vertices of the meshes tried.
MaxMeshVerts == 3

pipelineVars == <<targetVars, fileVars, libVars, srcVars, batchVars, jobVars, faults>>

\* Meshes: each vertex at position 0 or 1, two vertices at the same position
\* being within dist of each other and the two positions further apart.
Meshes == UNION {[1..n -> {0, 1}] : n \in 0..MaxMeshVerts}

\* Line 173: verts = verts or bm.verts.
VertsOrAll(arg, n) == IF arg.given /\ arg.sel # {} THEN arg.sel ELSE 1..n

RECURSIVE KeepVerts(_, _, _)
KeepVerts(mesh, i, keep) ==
    IF i > Len(mesh) THEN <<>>
    ELSE (IF i \in keep THEN <<mesh[i]>> ELSE <<>>) \o KeepVerts(mesh, i + 1, keep)

\* bmesh.ops.remove_doubles(bm, verts=sel, dist): of the vertices in sel that
\* lie within dist of each other, only the first stays.
BmeshRemoveDoubles(mesh, sel) ==
    KeepVerts(mesh, 1,
              {i \in 1..Len(mesh) :
                  ~(i \in sel /\ \E j \in sel : j < i /\ mesh[j] = mesh[i])})

Count(seq, x) == Cardinality({i \in 1..Len(seq) : seq[i] = x})

UtilCall(f) ==
    /\ uCalls < MaxUtilCalls
    /\ uCalls' = uCalls + 1
    /\ uLast' = f
    /\ uCallsBy' = [uCallsBy EXCEPT ![f] = @ + 1]

UtilRaise ==
    /\ uCalls < MaxUtilCalls
    /\ uCalls' = uCalls + 1
    /\ uLast' = "raised"
    /\ UNCHANGED <<uCallsBy, uMesh, uPrevMesh, uArg, uMods, uCons>>

\* remove_doubles(obj, verts, dist) (161-182); bm.from_mesh needs mesh data.
RemoveDoubles(arg) ==
    /\ IF uType # "MESH"
       THEN UtilRaise
       ELSE /\ UtilCall("remove_doubles")
            /\ uArg' = arg
            /\ uPrevMesh' = uMesh
            /\ uMesh' = BmeshRemoveDoubles(uMesh, VertsOrAll(arg, Len(uMesh)))
            /\ UNCHANGED <<uMods, uCons>>
    /\ UNCHANGED <<uType, pipelineVars, cmVars>>

\* add_modifier_surface_deform(obj, source) (55-67).
SurfaceDeformOn ==
    /\ IF uType # "MESH"
       THEN UtilRaise
       ELSE /\ UtilCall("surface_deform")
            /\ uMods' = ModifiersNew(uMods, "SURFACE_DEFORM")
            /\ UNCHANGED <<uMesh, uPrevMesh, uArg, uCons>>
    /\ UNCHANGED <<uType, pipelineVars, cmVars>>

\* add_modifier_laplacian_deform(obj, vertex_group) (70-79).
LaplacianDeformOn ==
    /\ UtilCall("laplacian_deform")
    /\ uMods' = ModifiersNew(uMods, "LAPLACIANDEFORM")
    /\ UNCHANGED <<uMesh, uPrevMesh, uArg, uCons>>
    /\ UNCHANGED <<uType, pipelineVars, cmVars>>

\* add_modifier_triangulate(obj) (82-90): the first TRIANGULATE modifier, or
\* a new one.
TriangulateOn ==
    /\ UtilCall("triangulate")
    /\ uMods' = (IF Count(uMods, "TRIANGULATE") > 0 THEN uMods
                 ELSE ModifiersNew(uMods, "TRIANGULATE"))
    /\ UNCHANGED <<uMesh, uPrevMesh, uArg, uCons>>
    /\ UNCHANGED <<uType, pipelineVars, cmVars>>

Constraint(t, target) == [type |-> t, name |-> <<target, t>>, target |-> target]

\* add_constraint(obj, target, type_) (132-146): the first constraint of that
\* type, or a new one; named and targeted anew either way.
AddConstraint(cons, target, t) ==
    IF \E i \in 1..Len(cons) : cons[i].type = t
    THEN LET first == CHOOSE i \in 1..Len(cons) :
                          /\ cons[i].type = t
                          /\ \A j \in 1..(i - 1) : cons[j].type # t
         IN [cons EXCEPT ![first] = Constraint(t, target)]
    ELSE Append(cons, Constraint(t, target))

ConstraintOn(target, t) ==
    /\ UtilCall("constraint")
    /\ uCons' = AddConstraint(uCons, target, t)
    /\ UNCHANGED <<uMesh, uPrevMesh, uArg, uMods>>
    /\ UNCHANGED <<uType, pipelineVars, cmVars>>

UtilInit ==
    /\ PipelineParked /\ CmIdle
    /\ uType \in {"MESH", "CURVE"}
    /\ uMesh \in Meshes
    /\ UtilIdle

UtilNext ==
    \/ \E arg \in VertArgs(Len(uMesh)) : RemoveDoubles(arg)
    \/ SurfaceDeformOn
    \/ LaplacianDeformOn
    \/ TriangulateOn
    \/ \E target \in {"Armature", "Body"}, t \in {"COPY_TRANSFORMS", "COPY_LOCATION"} :
          ConstraintOn(target, t)

UtilSpec == UtilInit /\ [][UtilNext]_vars

\* C12 (the claim as stated): remove_doubles with an explicitly empty verts
\* list leaves the mesh as it was, and so does remove_doubles on a mesh
\* without vertices, which does not raise.
C12_EmptySubsetNoop ==
    uLast = "remove_doubles" =>
        /\ (uArg.given /\ uArg.sel = {}) => uMesh = uPrevMesh
        /\ uPrevMesh = <<>> => uMesh = <<>>

\* C15 (the claim as stated): however often the helpers are called on an
\* object, it has at most one surface-deform, one laplacian-deform and one
\* triangulate modifier, and at most one constraint of a type.
C15_CreateOrReuse ==
    /\ Count(uMods, "SURFACE_DEFORM") <= 1
    /\ Count(uMods, "LAPLACIANDEFORM") <= 1
    /\ Count(uMods, "TRIANGULATE") <= 1
    /\ \A t \in {"COPY_TRANSFORMS", "COPY_LOCATION"} :
          Cardinality({i \in 1..Len(uCons) : uCons[i].type = t}) <= 1

\* C15 amended: add_modifier_surface_deform and add_modifier_laplacian_deform
\* add a new modifier on every call that returns (two calls leave two), while
\* add_modifier_triangulate and add_constraint reuse the existing entry of
\* the type and leave at most one.
C15_OnlySomeReuse ==
    /\ Count(uMods, "SURFACE_DEFORM") = uCallsBy["surface_deform"]
    /\ Count(uMods, "LAPLACIANDEFORM") = uCallsBy["laplacian_deform"]
    /\ Count(uMods, "TRIANGULATE") = (IF uCallsBy["triangulate"] > 0 THEN 1 ELSE 0)
    /\ \A t \in {"COPY_TRANSFORMS", "COPY_LOCATION"} :
          Cardinality({i \in 1..Len(uCons) : uCons[i].type = t}) <= 1
    /\ uCallsBy["constraint"] > 0 => Len(uCons) >= 1

\* C15 witness: add_modifier_surface_deform was called twice on the object.
C15_Witness ==
    /\ uCallsBy["surface_deform"] = 2
    /\ Count(uMods, "SURFACE_DEFORM") = 2

\* =================================================================
\* vcs/unity_vcs.py: cm_api around get_repos / get_wkspaces.
\* -----------------------------------------------------------------
\* Calls of decorated functions in one run.
MaxCmCalls == 2

\* How the managed block ends: the request answers 200 with a list, 200 with
\* one object, another status, or requests.get raises.
CmBlocks == {"list", "one", "status", "raises"}

\* Lines 56-60 / 72-76: what the decorated function returns.
BlockResult(b) ==
    IF b = "list" THEN <<"a", "b">> ELSE IF b = "one" THEN <<"a">> ELSE <<>>

\* A managed block that is not wrapped in try/finally.
AfterOwnedBlockNoFinally(raises) == IF raises THEN "raised" ELSE "finally"

\* Lines 40-44: the yield sits in try/finally, so every exit runs line 44.
AfterOwnedBlock(raises) == "finally"

\* get_repos() / get_wkspaces() is called: cm_api() is entered.
CmCall(fn, port, installed, block) ==
    /\ cmPc \in {"idle", "done", "raised"}
    /\ cmCalls < MaxCmCalls
    /\ cmCalls' = cmCalls + 1
    /\ cmFn' = fn /\ cmPort' = port /\ cmInstalled' = installed /\ cmBlock' = block
    /\ cmStarted' = 0 /\ cmClosed' = 0 /\ cmBlockRan' = FALSE
    /\ cmErr' = "" /\ cmResult' = <<>>
    /\ cmPc' = "probe"
    /\ UNCHANGED <<pipelineVars, utilVars>>

\* Lines 28-30: is the port already accepting connections?
CmProbe ==
    /\ cmPc = "probe"
    /\ cmPc' = (IF cmPort THEN "foreign" ELSE "popen")
    /\ UNCHANGED <<pipelineVars, utilVars, cmFn, cmPort, cmInstalled, cmBlock,
                   cmStarted, cmClosed, cmBlockRan, cmErr, cmResult, cmCalls>>

\* Lines 35-39: subprocess.Popen(["cm", "api"], ...).
CmPopen ==
    /\ cmPc = "popen"
    /\ IF cmInstalled
       THEN cmStarted' = cmStarted + 1 /\ cmPc' = "owned" /\ cmErr' = cmErr
       ELSE cmErr' = "CommandNotFoundError" /\ cmPc' = "raised" /\ cmStarted' = cmStarted
    /\ UNCHANGED <<pipelineVars, utilVars, cmFn, cmPort, cmInstalled, cmBlock,
                   cmClosed, cmBlockRan, cmResult, cmCalls>>

\* Lines 32-33: the block runs under a server this call did not start.
CmBlockForeign ==
    /\ cmPc = "foreign"
    /\ cmBlockRan' = TRUE
    /\ cmResult' = BlockResult(cmBlock)
    /\ IF cmBlock = "raises"
       THEN cmErr' = "RequestException" /\ cmPc' = "raised"
       ELSE cmErr' = cmErr /\ cmPc' = "done"
    /\ UNCHANGED <<pipelineVars, utilVars, cmFn, cmPort, cmInstalled, cmBlock,
                   cmStarted, cmClosed, cmCalls>>

\* Lines 40-41: the block runs under the subprocess this call started.
CmBlockOwned ==
    /\ cmPc = "owned"
    /\ cmBlockRan' = TRUE
    /\ cmResult' = BlockResult(cmBlock)
    /\ cmErr' = (IF cmBlock = "raises" THEN "RequestException" ELSE cmErr)
    /\ cmPc' = AfterOwnedBlock(cmBlock = "raises")
    /\ UNCHANGED <<pipelineVars, utilVars, cmFn, cmPort, cmInstalled, cmBlock,
                   cmStarted, cmClosed, cmCalls>>

\* Lines 42-44: subprocess_obj.communicate(input=b"\n"), then the block's
\* return or exception goes on to the caller.
CmFinally ==
    /\ cmPc = "finally"
    /\ cmClosed' = cmClosed + 1
    /\ cmPc' = (IF cmErr # "" THEN "raised" ELSE "done")
    /\ UNCHANGED <<pipelineVars, utilVars, cmFn, cmPort, cmInstalled, cmBlock,
                   cmStarted, cmBlockRan, cmErr, cmResult, cmCalls>>

CmInit == PipelineParked /\ UtilParked /\ CmIdle

CmNext ==
    \/ \E fn \in {"get_repos", "get_wkspaces"}, port \in BOOLEAN,
          installed \in BOOLEAN, block \in CmBlocks :
          CmCall(fn, port, installed, block)
    \/ CmProbe
    \/ CmPopen
    \/ CmBlockForeign
    \/ CmBlockOwned
    \/ CmFinally

CmSpec == CmInit /\ [][CmNext]_vars

CmEnded == cmPc \in {"done", "raised"}

\* C20: with the port open on entry the call starts and stops no
\* subprocess; otherwise, with cm installed, it has started exactly one and
\* sent it the closing input exactly once by the time it ends, however the
\* block ended; without cm it ends in CommandNotFoundError, the block not run.
C20_OwnsWhatItStarts ==
    /\ cmStarted <= 1 /\ cmClosed <= cmStarted
    /\ cmPort => (cmStarted = 0 /\ cmClosed = 0)
    /\ (CmEnded /\ cmPort) => cmBlockRan
    /\ (CmEnded /\ ~cmPort /\ cmInstalled) =>
          (cmStarted = 1 /\ cmClosed = 1 /\ cmBlockRan)
    /\ (CmEnded /\ ~cmPort /\ ~cmInstalled) =>
          /\ cmPc = "raised" /\ cmErr = "CommandNotFoundError"
          /\ ~cmBlockRan /\ cmStarted = 0 /\ cmClosed = 0

\* C20 witness: the block raised under a subprocess the call started, and
\* the closing input was sent before the exception reached the caller.
C20_Witness ==
    /\ cmPc = "raised" /\ ~cmPort /\ cmInstalled
    /\ cmErr = "RequestException"
    /\ cmStarted = 1 /\ cmClosed = 1
====
